---- MODULE Spec2Model ----
(***************************************************************************)
(* optimesh/main.py: the entry point optimize (method-name normalisation   *)
(* and routing) and the relaxation driver _optimize.                       *)
(*                                                                         *)
(* Numbers.  Coordinates, tolerances, radii and omega are integers.  A     *)
(* point is a coordinate vector (a sequence of integers); the meshes that  *)
(* are explored embed their vertices on a line, so that every Euclidean    *)
(* length that the driver computes (numpy.sqrt of a sum of squares) is an  *)
(* integer and the rescaling of a step is exact.  Cell inradii are even,   *)
(* so that "max_step *= 0.5" is exact.  The vector operators themselves    *)
(* are written for any dimension.                                          *)
(*                                                                         *)
(* The mesh service (meshplex), the point-update strategies (cvt, cpt,     *)
(* laplace, odt), the implicit surface and boundary_step are collaborators *)
(* outside main.py: what they return is drawn from small sets.             *)
(***************************************************************************)
EXTENDS Integers, Sequences, FiniteSets, TLC

VARIABLES
    \* ---- the mesh object -------------------------------------------------
    points,              \* mesh.points: vertex -> coordinate vector
    cells,               \* mesh.cells["points"]: sequence of vertex triples
    cell_inradius,       \* mesh.cell_inradius: one radius per cell
    is_boundary_point,   \* mesh.is_boundary_point: vertex -> BOOLEAN
    delaunay,            \* TRUE when flip_until_delaunay ran since the last change of points
    \* ---- arguments of _optimize ------------------------------------------
    tol, max_num_steps, omega, callback, step_filename_format,
    implicit_surface, implicit_surface_tol, boundary_step,
    \* ---- locals of _optimize ---------------------------------------------
    k, new_points, diff, max_step, fval, diff_norm_2, is_final,
    pc,                  \* position in optimize / _optimize
    result,              \* the value returned, or None
    \* ---- the call of optimize --------------------------------------------
    method,              \* the method name as passed (sequence of characters)
    normalized_method,   \* the local of optimize
    omega_arg,           \* how the caller passed omega: "absent", "keyword", "positional"
    error,               \* the exception that ended the call, or None
    nonlinear_call,      \* the calls odt.nonlinear_optimization received, with their arguments
    get_new_points,      \* the strategy handed to _optimize
    \* ---- history (observations, never read by the program) ---------------
    proposed,            \* what get_new_points returned in the current iteration
    old_points,          \* mesh.points held before the current iteration
    old_inradius,        \* per vertex: min incident inradius before the current iteration
    commits,             \* number of assignments to mesh.points
    passes,              \* correction passes of the current iteration: 0, 1, or 2 for more
    trace,               \* events in order: save, callback, flip, strategy, write, commit
    finals,              \* the value line 149 gave is_final in each iteration so far
    aliased              \* get_new_points returned the array mesh.points itself in the current iteration

mesh_vars == <<points, cells, cell_inradius, is_boundary_point, delaunay>>
arg_vars == <<tol, max_num_steps, omega, callback, step_filename_format,
              implicit_surface, implicit_surface_tol, boundary_step>>
local_vars == <<k, new_points, diff, max_step, fval, diff_norm_2, is_final>>
call_vars == <<method, normalized_method, omega_arg, error, nonlinear_call, get_new_points>>
hist_vars == <<proposed, old_points, old_inradius, commits, passes, trace, finals,
               aliased>>
vars == <<mesh_vars, arg_vars, local_vars, pc, result, call_vars, hist_vars>>

None == "None"

\* ---------------------------------------------------------------------------
\* Bounds of the exploration
\* ---------------------------------------------------------------------------
MaxSteps == 2        \* max_num_steps is 0, 1 or MaxSteps
Far == 4             \* the largest offset a strategy proposes

\* numpy.inf, the initial value of max_step: above every length of the model
Inf == 1000000

\* ---------------------------------------------------------------------------
\* Arithmetic on coordinate vectors (numpy row operations)
\* ---------------------------------------------------------------------------
Abs(x) == IF x < 0 THEN -x ELSE x

Min(a, b) == IF a < b THEN a ELSE b

\* numpy.sqrt on a perfect square
Sqrt(n) == CHOOSE r \in 0..n : r * r <= n /\ (r + 1) * (r + 1) > n

VAdd(a, b) == [i \in DOMAIN a |-> a[i] + b[i]]

VSub(a, b) == [i \in DOMAIN a |-> a[i] - b[i]]

VScale(c, a) == [i \in DOMAIN a |-> c * a[i]]

RECURSIVE DotUpTo(_, _, _)
DotUpTo(a, b, n) == IF n = 0 THEN 0 ELSE DotUpTo(a, b, n - 1) + a[n] * b[n]

\* numpy.einsum("ij,ij->i", a, b) for one row
Dot(a, b) == DotUpTo(a, b, Len(a))


\* ---------------------------------------------------------------------------
\* The mesh handed to the driver (meshplex.MeshTri, an external service)
\* ---------------------------------------------------------------------------
Verts == 1..4

\* Three small meshes: a fan around the interior vertex 4; the square split into
\* two cells (every vertex on the boundary); one triangle and a vertex that
\* touches no cell.
Meshes ==
    { [cells |-> << <<1, 2, 4>>, <<2, 3, 4>>, <<3, 1, 4>> >>,
       boundary |-> [v \in Verts |-> v # 4]],
      [cells |-> << <<1, 2, 3>>, <<1, 3, 4>> >>,
       boundary |-> [v \in Verts |-> TRUE]],
      [cells |-> << <<1, 2, 3>> >>,
       boundary |-> [v \in Verts |-> v # 4]] }

InitialPoints == [v \in Verts |-> << <<-4>>, <<4>>, <<3>>, <<1>> >>[v]]

\* mesh.cell_inradius as the mesh service reports it for n cells
Inradii(n) == { [i \in 1..n |-> 2 * i], [i \in 1..n |-> 6] }

\* mesh.flip_until_delaunay(): the triangulations it may leave (it moves no
\* vertex; it may swap the diagonal of the quadrilateral 1-2-3-4)
Flipped(c) ==
    IF c = << <<1, 2, 3>>, <<1, 3, 4>> >> \/ c = << <<1, 2, 4>>, <<2, 3, 4>> >>
    THEN { << <<1, 2, 3>>, <<1, 3, 4>> >>, << <<1, 2, 4>>, <<2, 3, 4>> >> }
    ELSE {c}

\* ---------------------------------------------------------------------------
\* Collaborators passed to _optimize
\* ---------------------------------------------------------------------------
\* get_new_points(mesh): one proposed coordinate per vertex.  The proposals are
\* the current points moved by one of these per-vertex offsets.
Offsets ==
    { [v \in Verts |-> 0],
      [v \in Verts |-> << 1, -1, 2, 1 >>[v]],
      [v \in Verts |-> << Far, 1, 0, -Far >>[v]] }

Proposals(pts) ==
    { [v \in Verts |-> [i \in DOMAIN pts[v] |-> pts[v][i] + o[v]]] : o \in Offsets }

\* boundary_step: moves a coordinate to the nearer end of the domain [-4, 4]
BoundaryStep(p) == [i \in DOMAIN p |-> IF p[i] >= 0 THEN 4 ELSE -4]

\* implicit_surface.f and implicit_surface.grad for one point:
\*   "plane": f(p) = p[1], the surface is the origin of the first axis;
\*   "cusp":  f(p) = |p[1]| + 2, a field without a zero.
SurfaceF(s, p) == IF s = "plane" THEN p[1] ELSE Abs(p[1]) + 2

SurfaceGrad(s, p) ==
    [i \in DOMAIN p |->
        IF i # 1 THEN 0
        ELSE IF s = "plane" THEN 1
        ELSE IF p[1] >= 0 THEN 1 ELSE -1]

\* ---------------------------------------------------------------------------
\* _optimize, lines 91-127: from the proposal to the clamped step
\* ---------------------------------------------------------------------------
\* A variant of lines 95-101 that leaves the proposal of a boundary point alone
\* when no boundary_step is given
BoundaryHandlingNoReset(np, pts, idx, bstep) ==
    [v \in Verts |-> IF idx[v] /\ bstep # None THEN BoundaryStep(np[v]) ELSE np[v]]

\* A variant of line 101 that leaves the free proposal of a boundary point
\* where the strategy put it
BoundaryHandlingUnprojected(np, pts, idx, bstep) ==
    [v \in Verts |-> IF idx[v] /\ bstep = None THEN pts[v] ELSE np[v]]

\* lines 95-101
BoundaryHandling(np, pts, idx, bstep) ==
    [v \in Verts |->
        IF idx[v]
        THEN IF bstep = None THEN pts[v] ELSE BoundaryStep(np[v])
        ELSE np[v]]

\* A variant of line 103 without the parentheses: omega * new_points - mesh.points
DiffUnparenthesized(om, np, pts) == [v \in Verts |-> VSub(VScale(om, np[v]), pts[v])]

\* line 103
Diff(om, np, pts) == [v \in Verts |-> VScale(om, VSub(np[v], pts[v]))]

\* mesh.cells["points"].reshape(-1) and numpy.repeat(mesh.cell_inradius, 3)
Reshape(c) == [j \in 1..(3 * Len(c)) |-> c[((j - 1) \div 3) + 1][((j - 1) % 3) + 1]]

Repeat3(r) == [j \in 1..(3 * Len(r)) |-> r[((j - 1) \div 3) + 1]]

\* numpy.minimum.at(a, indices, values), the first n entries applied
RECURSIVE MinimumAt(_, _, _, _)
MinimumAt(a, indices, values, n) ==
    IF n = 0 THEN a
    ELSE LET b == MinimumAt(a, indices, values, n - 1)
         IN  [b EXCEPT ![indices[n]] = Min(b[indices[n]], values[n])]

\* lines 112-117: per vertex, the least inradius of its cells (inf without a cell)
MinInradius(c, r) == MinimumAt([v \in Verts |-> Inf], Reshape(c), Repeat3(r), 3 * Len(c))

\* line 118: max_step *= 0.5 (inf stays inf)
MaxStep(c, r) ==
    [v \in Verts |-> IF MinInradius(c, r)[v] = Inf THEN Inf ELSE MinInradius(c, r)[v] \div 2]

\* line 120
StepLengths(d) == [v \in Verts |-> Sqrt(Dot(d[v], d[v]))]

\* A variant of lines 124-125 after the commented-out lines 121-123: one factor
\* alpha = min(max_step / step_lengths, 1.0) for all the vertices
ClampUniform(d, ms) ==
    LET len == StepLengths(d)
        over == {v \in Verts : len[v] > ms[v]}
    IN  IF over = {} THEN d
        ELSE LET w == CHOOSE w \in over : \A u \in over : ms[w] * len[u] <= ms[u] * len[w]
             IN  [v \in Verts |-> [i \in DOMAIN d[v] |-> (d[v][i] * ms[w]) \div len[w]]]

\* A variant of lines 124-125 that rescales no step
ClampNothing(d, ms) == d

\* lines 124-125
Clamp(d, ms) ==
    [v \in Verts |->
        IF StepLengths(d)[v] > ms[v]
        THEN [i \in DOMAIN d[v] |-> (d[v][i] * ms[v]) \div StepLengths(d)[v]]
        ELSE d[v]]

\* line 127
Moved(pts, d) == [v \in Verts |-> VAdd(pts[v], d[v])]

\* line 131 / 140
Fval(s, np) == [v \in Verts |-> SurfaceF(s, np[v])]

\* A variant of line 132 without numpy.abs
AnyOutsideSigned(fv, stol) == \E v \in Verts : fv[v] > stol

\* line 132
AnyOutside(fv, stol) == \E v \in Verts : Abs(fv[v]) > stol

\* A variant of line 138 that corrects only the rows outside the tolerance
NewtonPassOutside(s, np, fv) ==
    [v \in Verts |->
        LET grad == SurfaceGrad(s, np[v])
            grad_dot_grad == Dot(grad, grad)
        IN  IF Abs(fv[v]) > implicit_surface_tol
            THEN VSub(np[v], VScale(fv[v] \div grad_dot_grad, grad))
            ELSE np[v]]

\* lines 133-138: one correction pass, applied to the whole array
NewtonPass(s, np, fv) ==
    [v \in Verts |->
        LET grad == SurfaceGrad(s, np[v])
            grad_dot_grad == Dot(grad, grad)
        IN  VSub(np[v], VScale(fv[v] \div grad_dot_grad, grad))]

\* line 148
DiffNorm2(d) == [v \in Verts |-> Dot(d[v], d[v])]

\* A variant of line 149 without the max_num_steps test
IsFinalWithoutCap(dn2, t, kk, maxk) == \A v \in Verts : dn2[v] < t * t

\* A variant of line 149 with <= in the tolerance test
IsFinalNonStrict(dn2, t, kk, maxk) == (\A v \in Verts : dn2[v] <= t * t) \/ kk >= maxk

\* line 149
IsFinal(dn2, t, kk, maxk) == (\A v \in Verts : dn2[v] < t * t) \/ kk >= maxk

RECURSIVE MaxUpTo(_, _)
MaxUpTo(f, n) == IF n = 1 THEN f[1] ELSE LET m == MaxUpTo(f, n - 1) IN IF f[n] > m THEN f[n] ELSE m

\* A variant of line 175 without numpy.sqrt
ReturnValueSquared(kk, dn2) == <<kk, MaxUpTo(dn2, Cardinality(Verts))>>

\* line 175
ReturnValue(kk, dn2) == <<kk, MaxUpTo([v \in Verts |-> Sqrt(dn2[v])], Cardinality(Verts))>>


\* ---------------------------------------------------------------------------
\* The arguments a caller may pass
\* ---------------------------------------------------------------------------
Tols == {-1, 0, 2}

Omegas == {1, 2}

\* implicit_surface with its implicit_surface_tol
Surfaces == { <<None, 0>>, <<"plane", 1>>, <<"cusp", 0>> }

\* callback and step_filename_format: neither, a callback, or both
Observers == { <<FALSE, FALSE>>, <<TRUE, FALSE>>, <<TRUE, TRUE>> }

NoVector == << >>

NoResult == << >>

\* ---------------------------------------------------------------------------
\* _optimize
\* ---------------------------------------------------------------------------
\* The state on entry to _optimize(get_new_points, mesh, tol, max_num_steps, ...)
Enter(m, t, n, om, cb, fmt, surf, bstep) ==
    /\ points = InitialPoints
    /\ cells = m.cells
    /\ cell_inradius = [i \in 1..Len(m.cells) |-> 2 * i]
    /\ is_boundary_point = m.boundary
    /\ delaunay = FALSE
    /\ tol = t
    /\ max_num_steps = n
    /\ omega = om
    /\ callback = cb
    /\ step_filename_format = fmt
    /\ implicit_surface = surf[1]
    /\ implicit_surface_tol = surf[2]
    /\ boundary_step = bstep
    /\ k = 0
    /\ new_points = NoVector
    /\ diff = NoVector
    /\ max_step = NoVector
    /\ fval = NoVector
    /\ diff_norm_2 = NoVector
    /\ is_final = FALSE
    /\ result = NoResult
    /\ proposed = NoVector
    /\ old_points = InitialPoints
    /\ old_inradius = NoVector
    /\ commits = 0
    /\ passes = 0
    /\ trace = << >>
    /\ finals = << >>
    /\ aliased = FALSE

\* lines 73-79: the snapshot of iteration 0
SaveInitial ==
    /\ pc = "begin_save"
    /\ trace' = IF step_filename_format THEN Append(trace, <<"save", k>>) ELSE trace
    /\ pc' = "begin_callback"
    /\ UNCHANGED <<mesh_vars, arg_vars, local_vars, result, call_vars,
                   proposed, old_points, old_inradius, commits, passes, finals,
                   aliased>>

\* lines 81-82
CallbackInitial ==
    /\ pc = "begin_callback"
    /\ trace' = IF callback THEN Append(trace, <<"callback", k>>) ELSE trace
    /\ pc' = "begin_flip"
    /\ UNCHANGED <<mesh_vars, arg_vars, local_vars, result, call_vars,
                   proposed, old_points, old_inradius, commits, passes, finals,
                   aliased>>

\* line 85 and line 143: mesh.flip_until_delaunay()
FlipUntilDelaunay ==
    /\ \E c \in Flipped(cells) :
         /\ cells' = c
         /\ \E r \in Inradii(Len(c)) : cell_inradius' = r
    /\ delaunay' = TRUE
    /\ trace' = Append(trace, <<"flip", k>>)
    /\ UNCHANGED <<points, is_boundary_point>>

FlipInitial ==
    /\ pc = "begin_flip"
    /\ FlipUntilDelaunay
    /\ pc' = "propose"
    /\ UNCHANGED <<arg_vars, local_vars, result, call_vars,
                   proposed, old_points, old_inradius, commits, passes, finals,
                   aliased>>

\* lines 89-131: the strategy's proposal, the boundary handling, the step and
\* its clamp, the moved points and their first field values.  The strategy
\* returns a new array, or (when it proposes the current points) the array
\* mesh.points itself: lines 98 and 101 then write into the mesh, and line 103
\* subtracts the array from itself.
Propose ==
    /\ pc = "propose"
    /\ k' = k + 1
    /\ \E np \in Proposals(points), alias \in BOOLEAN :
         LET handled == BoundaryHandling(np, points, is_boundary_point, boundary_step)
             current == IF alias THEN handled ELSE points
             d == Diff(omega, handled, current)
             ms == MaxStep(cells, cell_inradius)
             clamped == Clamp(d, ms)
         IN  /\ alias => np = points
             /\ aliased' = alias
             /\ proposed' = np
             /\ points' = current
             /\ delaunay' = IF current = points THEN delaunay ELSE FALSE
             /\ trace' = IF current = points
                         THEN Append(trace, <<"strategy", k'>>)
                         ELSE Append(Append(trace, <<"strategy", k'>>), <<"write", k'>>)
             /\ max_step' = ms
             /\ diff' = clamped
             /\ new_points' = Moved(current, clamped)
    /\ fval' = IF implicit_surface = None THEN NoVector
               ELSE Fval(implicit_surface, new_points')
    /\ pc' = IF implicit_surface = None THEN "commit" ELSE "newton"
    /\ old_points' = points
    /\ old_inradius' = MinInradius(cells, cell_inradius)
    /\ passes' = 0
    /\ UNCHANGED <<cells, cell_inradius, is_boundary_point, arg_vars, diff_norm_2,
                   is_final, result, call_vars, commits, finals>>

\* lines 132-140: one pass of the correction loop
Correct ==
    /\ pc = "newton"
    /\ AnyOutside(fval, implicit_surface_tol)
    /\ new_points' = NewtonPass(implicit_surface, new_points, fval)
    /\ fval' = Fval(implicit_surface, new_points')
    /\ passes' = Min(passes + 1, 2)
    /\ UNCHANGED <<mesh_vars, arg_vars, k, diff, max_step, diff_norm_2, is_final,
                   pc, result, call_vars, proposed, old_points, old_inradius, commits, trace,
                   finals, aliased>>

\* line 132: the loop condition is false
CorrectDone ==
    /\ pc = "newton"
    /\ ~AnyOutside(fval, implicit_surface_tol)
    /\ pc' = "commit"
    /\ UNCHANGED <<mesh_vars, arg_vars, local_vars, result, call_vars, hist_vars>>

\* line 142: mesh.points = new_points
Commit ==
    /\ pc = "commit"
    /\ points' = new_points
    /\ delaunay' = FALSE
    /\ commits' = commits + 1
    /\ trace' = Append(trace, <<"commit", k>>)
    /\ pc' = "flip"
    /\ UNCHANGED <<cells, cell_inradius, is_boundary_point, arg_vars, local_vars,
                   result, call_vars, proposed, old_points, old_inradius, passes, finals,
                   aliased>>

\* A variant of line 143 that leaves the triangulation as the commit left it
FlipSkipped ==
    /\ pc = "flip"
    /\ pc' = "test"
    /\ UNCHANGED <<mesh_vars, arg_vars, local_vars, result, call_vars, hist_vars>>

\* line 143
Flip ==
    /\ pc = "flip"
    /\ FlipUntilDelaunay
    /\ pc' = "test"
    /\ UNCHANGED <<arg_vars, local_vars, result, call_vars,
                   proposed, old_points, old_inradius, commits, passes, finals,
                   aliased>>

\* lines 148-149
Test ==
    /\ pc = "test"
    /\ diff_norm_2' = DiffNorm2(diff)
    /\ is_final' = IsFinal(diff_norm_2', tol, k, max_num_steps)
    /\ finals' = Append(finals, is_final')
    /\ pc' = "report"
    /\ UNCHANGED <<mesh_vars, arg_vars, k, new_points, diff, max_step, fval,
                   result, call_vars, proposed, old_points, old_inradius, commits,
                   passes, trace, aliased>>

\* A variant of lines 151-168 whose outer test is "if is_final:"
ReportWhenFinal ==
    /\ pc = "report"
    /\ trace' = IF is_final /\ step_filename_format
                THEN Append(trace, <<"save", k>>) ELSE trace
    /\ pc' = "callback"
    /\ UNCHANGED <<mesh_vars, arg_vars, local_vars, result, call_vars,
                   proposed, old_points, old_inradius, commits, passes, finals,
                   aliased>>

\* lines 151-168: the snapshot of iteration k
Report ==
    /\ pc = "report"
    /\ trace' = IF (is_final \/ step_filename_format) /\ step_filename_format
                THEN Append(trace, <<"save", k>>) ELSE trace
    /\ pc' = "callback"
    /\ UNCHANGED <<mesh_vars, arg_vars, local_vars, result, call_vars,
                   proposed, old_points, old_inradius, commits, passes, finals,
                   aliased>>

\* A variant of lines 169-170 with the callback under the test of line 152
CallbackWhenFinal ==
    /\ pc = "callback"
    /\ trace' = IF callback /\ is_final THEN Append(trace, <<"callback", k>>) ELSE trace
    /\ pc' = "break"
    /\ UNCHANGED <<mesh_vars, arg_vars, local_vars, result, call_vars,
                   proposed, old_points, old_inradius, commits, passes, finals,
                   aliased>>

\* lines 169-170
Callback ==
    /\ pc = "callback"
    /\ trace' = IF callback THEN Append(trace, <<"callback", k>>) ELSE trace
    /\ pc' = "break"
    /\ UNCHANGED <<mesh_vars, arg_vars, local_vars, result, call_vars,
                   proposed, old_points, old_inradius, commits, passes, finals,
                   aliased>>

\* lines 172-173 (not final): back to line 88
Loop ==
    /\ pc = "break"
    /\ ~is_final
    /\ pc' = "propose"
    /\ UNCHANGED <<mesh_vars, arg_vars, local_vars, result, call_vars, hist_vars>>

\* A variant of lines 172-175 that leaves the loop whatever is_final holds
ReturnAlways ==
    /\ pc = "break"
    /\ result' = ReturnValue(k, diff_norm_2)
    /\ pc' = "done"
    /\ UNCHANGED <<mesh_vars, arg_vars, local_vars, call_vars, hist_vars>>

\* lines 172-175 (final): break and return
Return ==
    /\ pc = "break"
    /\ is_final
    /\ result' = ReturnValue(k, diff_norm_2)
    /\ pc' = "done"
    /\ UNCHANGED <<mesh_vars, arg_vars, local_vars, call_vars, hist_vars>>

\* the steps of _optimize other than the strategy's
Continue ==
    \/ SaveInitial
    \/ CallbackInitial
    \/ FlipInitial
    \/ Correct
    \/ CorrectDone
    \/ Commit
    \/ Flip
    \/ Test
    \/ Report
    \/ Callback
    \/ Loop
    \/ Return

NextDriver == Propose \/ Continue

\* A direct call of _optimize with any of the arguments
InitDriver ==
    /\ pc = "begin_save"
    /\ method = << >>
    /\ normalized_method = << >>
    /\ omega_arg = "direct"
    /\ error = None
    /\ nonlinear_call = << >>
    /\ get_new_points = "caller"
    /\ \E m \in Meshes, t \in Tols, n \in {0, 1, MaxSteps}, om \in Omegas,
          obs \in Observers, surf \in Surfaces, bstep \in {None, "snap"} :
         Enter(m, t, n, om, obs[1], obs[2], surf, bstep)

SpecDriver == InitDriver /\ [][NextDriver]_vars


\* ---------------------------------------------------------------------------
\* optimize: method names.  A name is a sequence of one-character strings.
\* ---------------------------------------------------------------------------
LowerCase == <<"a", "b", "c", "d", "e", "f", "g", "h", "i", "j", "k", "l", "m",
               "n", "o", "p", "q", "r", "s", "t", "u", "v", "w", "x", "y", "z">>

UpperCase == <<"A", "B", "C", "D", "E", "F", "G", "H", "I", "J", "K", "L", "M",
               "N", "O", "P", "Q", "R", "S", "T", "U", "V", "W", "X", "Y", "Z">>

\* str.lower(), one character
LowerChar(c) ==
    IF \E i \in 1..26 : UpperCase[i] = c
    THEN LowerCase[CHOOSE i \in 1..26 : UpperCase[i] = c]
    ELSE c

\* A variant of line 33 that keeps the letter case
LowerNothing(name) == name

\* method.lower()
Lower(name) == [i \in 1..Len(name) |-> LowerChar(name[i])]

\* the pattern "-| |\\(|\\)" of line 33
IsSeparator(c) == c \in {"-", " ", "(", ")"}

\* re.split: the items between separators, empty items included
RECURSIVE Split(_)
Split(name) ==
    IF name = << >> THEN << << >> >>
    ELSE LET rest == Split(Tail(name))
         IN  IF IsSeparator(Head(name))
             THEN << << >> >> \o rest
             ELSE << <<Head(name)>> \o Head(rest) >> \o Tail(rest)

\* filter(lambda item: item != "", ...)
NonEmpty(items) == SelectSeq(items, LAMBDA item : item # << >>)

\* "-".join(items)
RECURSIVE Join(_)
Join(items) ==
    IF items = << >> THEN << >>
    ELSE IF Len(items) = 1 THEN Head(items)
    ELSE Head(items) \o <<"-">> \o Join(Tail(items))

\* lines 32-34
Normalize(name) == Join(NonEmpty(Split(Lower(name))))

\* the slices s[:n] and s[n:]
Take(name, n) == SubSeq(name, 1, Min(n, Len(name)))

Drop(name, n) == SubSeq(name, n + 1, Len(name))

\* lines 9-22
MethodTable ==
    { << <<"l", "l", "o", "y", "d">>,
         "cvt.lloyd" >>,
      << <<"c", "v", "t", "-", "d", "i", "a", "o", "g", "n", "a", "l">>,
         "cvt.lloyd" >>,
      << <<"c", "v", "t", "-", "b", "l", "o", "c", "k", "-", "d", "i", "a", "g", "o", "n", "a", "l">>,
         "cvt.block_diagonal" >>,
      << <<"c", "v", "t", "-", "f", "u", "l", "l">>,
         "cvt.full" >>,
      << <<"c", "p", "t", "-", "l", "i", "n", "e", "a", "r", "-", "s", "o", "l", "v", "e">>,
         "cpt.linear_solve" >>,
      << <<"c", "p", "t", "-", "f", "i", "x", "e", "d", "-", "p", "o", "i", "n", "t">>,
         "cpt.fixed_point" >>,
      << <<"c", "p", "t", "-", "q", "u", "a", "s", "i", "-", "n", "e", "w", "t", "o", "n">>,
         "cpt.quasi_newton" >>,
      << <<"l", "a", "p", "l", "a", "c", "e">>,
         "laplace" >>,
      << <<"o", "d", "t", "-", "f", "i", "x", "e", "d", "-", "p", "o", "i", "n", "t">>,
         "odt.fixed_point" >> }

MethodKeys == { row[1] : row \in MethodTable }

methods == [key \in MethodKeys |-> (CHOOSE row \in MethodTable : row[1] = key)[2]]

\* line 37
IsNonlinear(nm) == Take(nm, 3) = <<"o", "d", "t">> /\ Drop(nm, 4) # <<"f", "i", "x", "e", "d", "-", "p", "o", "i", "n", "t">>


\* ---------------------------------------------------------------------------
\* The method names a caller may pass: token lists written in several styles
\* ---------------------------------------------------------------------------
TokenLists ==
    { << <<"l", "l", "o", "y", "d">> >>,
      << <<"c", "v", "t">>, <<"d", "i", "a", "o", "g", "n", "a", "l">> >>,
      << <<"c", "v", "t">>, <<"b", "l", "o", "c", "k">>, <<"d", "i", "a", "g", "o", "n", "a", "l">> >>,
      << <<"c", "v", "t">>, <<"f", "u", "l", "l">> >>,
      << <<"c", "p", "t">>, <<"l", "i", "n", "e", "a", "r">>, <<"s", "o", "l", "v", "e">> >>,
      << <<"c", "p", "t">>, <<"f", "i", "x", "e", "d">>, <<"p", "o", "i", "n", "t">> >>,
      << <<"c", "p", "t">>, <<"q", "u", "a", "s", "i">>, <<"n", "e", "w", "t", "o", "n">> >>,
      << <<"l", "a", "p", "l", "a", "c", "e">> >>,
      << <<"o", "d", "t">>, <<"f", "i", "x", "e", "d">>, <<"p", "o", "i", "n", "t">> >>,
      << <<"o", "d", "t">>, <<"b", "f", "g", "s">> >>,
      << <<"o", "d", "t">>, <<"b", "l", "o", "c", "k">>, <<"d", "i", "a", "g", "o", "n", "a", "l">> >>,
      << <<"o", "d", "t">> >>,
      << <<"o", "d", "t", "f", "o", "o">> >>,
      << <<"o", "d", "t", "x", "f", "i", "x", "e", "d">>, <<"p", "o", "i", "n", "t">> >>,
      << <<"o", "d", "t">>, <<"f", "i", "x", "e", "d">>, <<"p", "o", "i", "n", "t">>, <<"x">> >>,
      << <<"c", "v", "t">> >>,
      << <<"f", "o", "o">> >>,
      << >> }

\* the same tokens with other letter case and other separators
Styles ==
    { [lead |-> << >>, first |-> <<"-">>, sep |-> <<"-">>, trail |-> << >>,
       upper1 |-> FALSE, upper |-> FALSE],
      [lead |-> << >>, first |-> <<" ">>, sep |-> <<" ">>, trail |-> << >>,
       upper1 |-> TRUE, upper |-> TRUE],
      [lead |-> << >>, first |-> <<" ", " ", "(">>, sep |-> <<" ">>, trail |-> <<")">>,
       upper1 |-> TRUE, upper |-> FALSE],
      [lead |-> <<"-">>, first |-> <<"-", "-">>, sep |-> <<")", " ", "(">>, trail |-> <<" ">>,
       upper1 |-> FALSE, upper |-> FALSE] }

UpperChar(c) ==
    IF \E i \in 1..26 : LowerCase[i] = c
    THEN UpperCase[CHOOSE i \in 1..26 : LowerCase[i] = c]
    ELSE c

Cased(token, up) == IF up THEN [i \in 1..Len(token) |-> UpperChar(token[i])] ELSE token

RECURSIVE WriteRest(_, _)
WriteRest(tokens, st) ==
    IF tokens = << >> THEN << >>
    ELSE st.sep \o Cased(Head(tokens), st.upper) \o WriteRest(Tail(tokens), st)

Written(tokens, st) ==
    IF tokens = << >> THEN st.lead \o st.trail
    ELSE st.lead \o Cased(Head(tokens), st.upper1)
         \o (IF Len(tokens) = 1 THEN << >>
             ELSE st.first \o Cased(tokens[2], st.upper) \o WriteRest(Tail(Tail(tokens)), st))
         \o st.trail

Names == { Written(tokens, st) : tokens \in TokenLists, st \in Styles }

\* ---------------------------------------------------------------------------
\* optimize(mesh, method, *args, **kwargs), lines 29-45
\* ---------------------------------------------------------------------------
\* *args and **kwargs as the caller wrote them
PositionalArgs == IF omega_arg = "positional" THEN <<tol, max_num_steps, omega>>
                  ELSE <<tol, max_num_steps>>

KeywordArgs ==
    (IF omega_arg = "keyword" THEN {"omega"} ELSE {})
    \cup (IF implicit_surface # None THEN {"implicit_surface", "implicit_surface_tol"} ELSE {})

\* lines 37-41, the assertion fails
OptimizeAssertionError ==
    /\ pc = "optimize"
    /\ normalized_method' = Normalize(method)
    /\ IsNonlinear(normalized_method')
    /\ "omega" \in KeywordArgs /\ omega # 1
    /\ error' = "AssertionError"
    /\ pc' = "raised"
    /\ UNCHANGED <<mesh_vars, arg_vars, local_vars, result, method, omega_arg,
                   nonlinear_call, get_new_points, hist_vars>>

\* odt.nonlinear_optimization(mesh, ...), a routine outside main.py: the points
\* it may leave in the mesh it is handed (it relocates vertices, or leaves them)
NonlinearOptimization(pts) == Proposals(pts)

\* lines 37-43: odt.nonlinear_optimization(mesh, min_method, *args, **kwargs) is
\* called with omega removed from the keywords, and optimize returns None
OptimizeNonlinear ==
    /\ pc = "optimize"
    /\ normalized_method' = Normalize(method)
    /\ IsNonlinear(normalized_method')
    /\ "omega" \in KeywordArgs => omega = 1
    /\ points' \in NonlinearOptimization(points)
    /\ nonlinear_call' = Append(nonlinear_call,
                                [min_method |-> Drop(normalized_method', 4),
                                 args |-> PositionalArgs,
                                 kwargs |-> KeywordArgs \ {"omega"}])
    /\ pc' = "returned_none"
    /\ UNCHANGED <<cells, cell_inradius, is_boundary_point, delaunay, arg_vars,
                   local_vars, result, method, omega_arg, error, get_new_points,
                   hist_vars>>

\* line 45: methods[normalized_method] raises KeyError
OptimizeKeyError ==
    /\ pc = "optimize"
    /\ normalized_method' = Normalize(method)
    /\ ~IsNonlinear(normalized_method')
    /\ normalized_method' \notin DOMAIN methods
    /\ error' = "KeyError"
    /\ pc' = "raised"
    /\ UNCHANGED <<mesh_vars, arg_vars, local_vars, result, method, omega_arg,
                   nonlinear_call, get_new_points, hist_vars>>

\* line 45: _optimize is entered with the strategy of the table
OptimizeDriver ==
    /\ pc = "optimize"
    /\ normalized_method' = Normalize(method)
    /\ ~IsNonlinear(normalized_method')
    /\ normalized_method' \in DOMAIN methods
    /\ get_new_points' = methods[normalized_method']
    /\ pc' = "begin_save"
    /\ UNCHANGED <<mesh_vars, arg_vars, local_vars, result, method, omega_arg,
                   error, nonlinear_call, hist_vars>>

Optimize ==
    \/ OptimizeAssertionError
    \/ OptimizeNonlinear
    \/ OptimizeKeyError
    \/ OptimizeDriver

Next == Optimize \/ NextDriver

\* The fan mesh, used for the calls through optimize
FanMesh == [cells |-> << <<1, 2, 4>>, <<2, 3, 4>>, <<3, 1, 4>> >>,
            boundary |-> [v \in Verts |-> v # 4]]

\* A call of optimize: any name, omega absent (the default 1.0 of line 59), or
\* given by keyword or by position
Init ==
    /\ pc = "optimize"
    /\ method \in Names
    /\ normalized_method = << >>
    /\ error = None
    /\ nonlinear_call = << >>
    /\ get_new_points = None
    /\ \E passing \in { <<"absent", 1>>, <<"keyword", 1>>, <<"keyword", 2>>,
                        <<"positional", 1>>, <<"positional", 2>> },
          n \in {1, MaxSteps}, surf \in { <<None, 0>>, <<"plane", 0>> } :
         /\ omega_arg = passing[1]
         /\ Enter(FanMesh, 2, n, passing[2], FALSE, FALSE, surf, None)

Spec == Init /\ [][Next]_vars


\* ===========================================================================
\* Properties
\* ===========================================================================
Max(a, b) == IF a > b THEN a ELSE b

Zero(d) == \A i \in DOMAIN d : d[i] = 0

\* mesh.points has been assigned in iteration k (line 142 has run)
Committed == k >= 1 /\ pc \in {"flip", "test", "report", "callback", "break", "done", "propose"}

\* the step of iteration k has been computed (line 127 has run)
Stepped == k >= 1 /\ pc \notin {"optimize", "raised", "returned_none"}

\* what the mesh's vertex v moved by in iteration k
Displacement(v) == VSub(points[v], old_points[v])

\* the proposal of vertex v after the boundary handling of iteration k, read off
\* the strategy's proposal and the points held before the iteration
Target(v) ==
    IF is_boundary_point[v]
    THEN IF boundary_step = None THEN old_points[v]
         ELSE [i \in DOMAIN proposed[v] |-> IF proposed[v][i] >= 0 THEN 4 ELSE -4]
    ELSE proposed[v]

\* the position of vertex v in the mesh when line 103 computes the step: the
\* position before the iteration, or, when the strategy returned mesh.points
\* itself, what lines 98-101 wrote into that array
Current(v) == IF aliased THEN Target(v) ELSE old_points[v]

\* omega * (proposal - current) for vertex v, before the clamp
FullStep(v) == VScale(omega, VSub(Target(v), Current(v)))

\* d is the vector full rescaled to the length bound, direction preserved
Rescaled(d, full, bound) ==
    /\ Dot(d, d) = bound * bound
    /\ LET length == Sqrt(Dot(full, full))
       IN  \A i \in DOMAIN d : d[i] * length = full[i] * bound

AllBelowTol == \A v \in Verts : diff_norm_2[v] < tol * tol

\* the two terminal states of the driver
Converged == pc = "done" /\ AllBelowTol

MaxStepsReached == pc = "done" /\ ~AllBelowTol /\ k >= max_num_steps

\* ---------------------------------------------------------------------------
\* C1
\* ---------------------------------------------------------------------------
\* a measure that every step of the driver decreases while it is not in a
\* correction loop that cannot end
PcRank ==
    CASE pc = "begin_save" -> 4
      [] pc = "begin_callback" -> 3
      [] pc = "begin_flip" -> 2
      [] pc = "propose" -> 1
      [] pc = "newton" -> IF AnyOutside(fval, implicit_surface_tol) THEN 12 ELSE 11
      [] pc = "commit" -> 10
      [] pc = "flip" -> 9
      [] pc = "test" -> 8
      [] pc = "report" -> 7
      [] pc = "callback" -> 6
      [] pc = "break" -> 5
      [] OTHER -> 0

Variant == (Max(1, max_num_steps) - k) * 16 + PcRank

C1_Bounded ==
    /\ k <= Max(1, max_num_steps)
    /\ Variant >= 0
    /\ pc = "done" => /\ result[1] = k
                      /\ 1 <= k
                      /\ Converged \/ MaxStepsReached
    /\ pc \notin {"done", "propose"} => ENABLED Continue
    /\ (pc = "newton" /\ implicit_surface = "cusp") => AnyOutside(fval, implicit_surface_tol)

\* C1 (as claimed): a finished call has executed at most max_num_steps iterations
\* and ended in one of the two terminal states.
C1_AsClaimed ==
    pc = "done" => (result[1] <= max_num_steps /\ (Converged \/ MaxStepsReached))

\* C1 (amended): the iteration count never exceeds max(1, max_num_steps); a call
\* that returns has run 1 <= k <= max(1, max_num_steps) iterations and is
\* Converged or MaxStepsReached; the driver is never stuck before it returns
\* (at line 91 the strategy is called; everywhere else a step is enabled);
\* every step decreases a non-negative measure unless the implicit surface is
\* the field without a zero, whose correction loop never exits.
C1_Halts ==
    /\ [](C1_Bounded)
    /\ [][implicit_surface # "cusp" => Variant' < Variant]_vars

\* a run that used all its iterations without meeting the tolerance
C1_Witness ==
    /\ MaxStepsReached
    /\ k = max_num_steps /\ k >= 2
    /\ implicit_surface = "plane"
    /\ passes >= 1

\* ---------------------------------------------------------------------------
\* C2
\* ---------------------------------------------------------------------------
\* |d|^2 <= (r / 2)^2, with no bound for a vertex without a cell
WithinHalfInradius(d, r) == r # Inf => 4 * Dot(d, d) <= r * r

\* C2 (as claimed): in every iteration and for every vertex, the displacement
\* committed to the mesh is at most half the least inradius of the vertex's cells
\* as measured before the step.
C2_AsClaimed ==
    Committed => \A v \in Verts : WithinHalfInradius(Displacement(v), old_inradius[v])

\* C2 (amended): in every iteration and for every vertex the clamped step diff
\* is at most half the least inradius of the vertex's cells as measured before
\* the step, for every omega, boundary_step and implicit_surface; when no
\* correction pass of an implicit surface ran in the iteration, the position
\* committed is the position held at line 103 plus that step, and the
\* displacement of the iteration is that step unless the strategy returned
\* mesh.points itself (line 101 then moves boundary vertices in the mesh,
\* unclamped, before the step is computed).
C2_ClampedStep ==
    /\ Stepped => \A v \in Verts : WithinHalfInradius(diff[v], old_inradius[v])
    /\ (Committed /\ passes = 0) =>
          \A v \in Verts : /\ points[v] = VAdd(Current(v), diff[v])
                           /\ ~aliased => Displacement(v) = diff[v]

\* a committed step that was cut to exactly the bound, with every option set
C2_Witness ==
    /\ Committed
    /\ omega = 2 /\ boundary_step = "snap" /\ implicit_surface = "plane"
    /\ \E v \in Verts :
         /\ old_inradius[v] # Inf
         /\ 4 * Dot(diff[v], diff[v]) = old_inradius[v] * old_inradius[v]
         /\ Dot(VSub(proposed[v], old_points[v]), VSub(proposed[v], old_points[v]))
              > Dot(diff[v], diff[v])

\* ---------------------------------------------------------------------------
\* C3
\* ---------------------------------------------------------------------------
\* C3 (as claimed): without boundary_step, every boundary vertex is after an
\* iteration where it was before it.
C3_AsClaimed ==
    (Committed /\ boundary_step = None) =>
        \A v \in Verts : is_boundary_point[v] => points[v] = old_points[v]

\* C3 (amended): without boundary_step, every boundary vertex is after an
\* iteration where it was before it, provided no correction pass of an implicit
\* surface ran in that iteration; its clamped step is zero in any case.
C3_BoundaryFrozen ==
    /\ (Stepped /\ boundary_step = None) =>
          \A v \in Verts : is_boundary_point[v] => Zero(diff[v])
    /\ (Committed /\ boundary_step = None /\ passes = 0) =>
          \A v \in Verts : is_boundary_point[v] => points[v] = old_points[v]

\* the strategy proposed to move a boundary vertex and the iteration was committed
C3_Witness ==
    /\ Committed /\ boundary_step = None /\ passes = 0
    /\ omega = 2 /\ implicit_surface = "plane"
    /\ \E v \in Verts : is_boundary_point[v] /\ proposed[v] # old_points[v]

\* ---------------------------------------------------------------------------
\* C4
\* ---------------------------------------------------------------------------
\* the call returned although k had not reached max_num_steps
StoppedByTolerance == pc = "done" /\ k < max_num_steps

\* |d| < t
ShorterThan(d, t) == t > 0 /\ Dot(d, d) < t * t

\* C4 (as claimed): when the driver stops by the tolerance test, every vertex's
\* displacement committed in the last iteration is shorter than tol.
C4_AsClaimed ==
    StoppedByTolerance => \A v \in Verts : ShorterThan(Displacement(v), tol)

\* C4 (amended): when the driver stops by the tolerance test, every vertex's
\* clamped step of the last iteration is shorter than |tol|; that step is the
\* displacement committed to the mesh when no correction pass of an implicit
\* surface ran in the last iteration and the strategy returned an array other
\* than mesh.points.
C4_StepBelowTol ==
    StoppedByTolerance =>
        /\ \A v \in Verts : ShorterThan(diff[v], Abs(tol))
        /\ (passes = 0 /\ ~aliased) =>
              \A v \in Verts : ShorterThan(Displacement(v), Abs(tol))

\* a run stopped by the tolerance after a step that moved a vertex
C4_Witness ==
    /\ StoppedByTolerance
    /\ passes = 0
    /\ \E v \in Verts : ~Zero(Displacement(v))

\* ---------------------------------------------------------------------------
\* C10
\* ---------------------------------------------------------------------------
\* the strategy returned the mesh's current points in iteration k
ProposedCurrent == Stepped /\ pc # "propose" /\ proposed = old_points

\* boundary handling leaves the current points where they are
BoundaryKept ==
    \A v \in Verts :
        (is_boundary_point[v] /\ boundary_step # None) => BoundaryStep(old_points[v]) = old_points[v]

\* C10 (as claimed): if the strategy returns the current points in the first
\* iteration, that iteration is final, the mesh is unchanged and the call
\* returns (1, 0).
C10_AsClaimed ==
    (ProposedCurrent /\ k = 1) =>
        /\ pc \in {"report", "callback", "break", "done"} => (is_final /\ points = old_points)
        /\ pc = "done" => result = <<1, 0>>

\* C10 (amended): if the strategy returns the current points in iteration k and
\* boundary handling leaves the boundary vertices where they are, the step of
\* every vertex is zero; the iteration is final exactly when tol is not 0 or k
\* has reached max_num_steps, and the call then returns (k, 0), which is (1, 0)
\* in the first iteration; the mesh is unchanged when no correction pass of an
\* implicit surface ran.
C10_FixedPoint ==
    (ProposedCurrent /\ BoundaryKept) =>
        /\ \A v \in Verts : Zero(diff[v])
        /\ pc \in {"report", "callback", "break", "done"} =>
              (is_final <=> (tol # 0 \/ k >= max_num_steps))
        /\ pc = "done" => result = <<k, 0>>
        /\ (Committed /\ passes = 0) => points = old_points

\* the first iteration returned (1, 0) from a proposal of the current points,
\* with max_num_steps not yet reached
C10_Witness ==
    /\ ProposedCurrent /\ BoundaryKept
    /\ pc = "done" /\ result = <<1, 0>> /\ max_num_steps >= 2 /\ omega = 2
    /\ points = old_points


\* ---------------------------------------------------------------------------
\* C5
\* ---------------------------------------------------------------------------
\* r is the greatest length among the vectors f[v]
IsMaxLength(r, f) ==
    /\ r >= 0
    /\ \E v \in Verts : r * r = Dot(f[v], f[v])
    /\ \A v \in Verts : Dot(f[v], f[v]) <= r * r

\* C5 (as claimed): a call of optimize that returns from the driver returns the
\* number of committed steps and the greatest length of the displacements
\* committed in the last step.
C5_AsClaimed ==
    pc = "done" =>
        /\ result[1] = commits
        /\ IsMaxLength(result[2], [v \in Verts |-> Displacement(v)])

\* C5 (amended): for every name of the methods table, a call of optimize that
\* completes returns (iterations, residual): iterations is the number of
\* committed steps, residual the greatest length among the clamped steps diff of
\* the last iteration, which are the displacements committed in it when no
\* correction pass of an implicit surface ran and line 101 did not write into
\* mesh.points (the strategy returned another array, or boundary_step is not
\* configured).
C5_Returns ==
    /\ pc = "done" =>
          /\ Len(result) = 2
          /\ result[1] = commits /\ result[1] = k
          /\ IsMaxLength(result[2], diff)
          /\ (passes = 0 /\ (~aliased \/ boundary_step = None)) =>
                IsMaxLength(result[2], [v \in Verts |-> Displacement(v)])
          /\ normalized_method \in MethodKeys /\ error = None
    /\ (pc \in {"begin_save", "done"} /\ normalized_method \in MethodKeys) =>
          get_new_points = methods[normalized_method]

\* a call by a name written with capitals and spaces that returned a residual
\* of more than one unit after two steps
C5_Witness ==
    /\ pc = "done"
    /\ get_new_points = "cpt.quasi_newton" /\ method # normalized_method
    /\ result[1] = 2 /\ result[2] >= 2
    /\ passes = 0 /\ omega_arg = "positional"

\* ---------------------------------------------------------------------------
\* C6
\* ---------------------------------------------------------------------------
\* main.py has not touched the mesh and has not entered the driver
Untouched ==
    /\ points = InitialPoints /\ cells = FanMesh.cells /\ commits = 0
    /\ k = 0 /\ trace = << >> /\ get_new_points = None

\* C6 (as claimed): for every name whose normalized form is no key of the methods
\* table, optimize fails with the unknown-method error, the mesh is not
\* mutated and neither the driver nor the nonlinear optimizer is invoked.
\* (Stated for the names that do not begin with "odt-" followed by a remainder
\* other than "fixed-point": those are the names that the nonlinear optimizer
\* is meant to receive.)
C6_AsClaimed ==
    (/\ pc # "optimize"
     /\ normalized_method \notin MethodKeys
     /\ ~(/\ Take(normalized_method, 4) = <<"o", "d", "t", "-">>
          /\ Drop(normalized_method, 4) # <<"f", "i", "x", "e", "d", "-", "p", "o", "i", "n", "t">>)) =>
        /\ pc = "raised" /\ error = "KeyError"
        /\ Untouched /\ nonlinear_call = << >>

\* ---------------------------------------------------------------------------
\* C7
\* ---------------------------------------------------------------------------
\* C7 (as claimed): on the nonlinear path, an omega other than 1.0, passed by
\* keyword or by position, raises before odt.nonlinear_optimization is invoked
\* and the mesh is unchanged; an omega of exactly 1.0 is not forwarded.  (Stated
\* for the names that begin with "odt-".)
C7_AsClaimed ==
    (pc # "optimize" /\ IsNonlinear(normalized_method) /\ omega_arg # "absent"
       /\ Take(normalized_method, 4) = <<"o", "d", "t", "-">>) =>
        IF omega # 1
        THEN pc = "raised" /\ error = "AssertionError" /\ nonlinear_call = << >> /\ Untouched
        ELSE /\ Len(nonlinear_call) = 1
             /\ "omega" \notin nonlinear_call[1].kwargs
             /\ nonlinear_call[1].args = <<tol, max_num_steps>>

\* ---------------------------------------------------------------------------
\* C8
\* ---------------------------------------------------------------------------
RoutedToNonlinear == error = "AssertionError" \/ nonlinear_call # << >>

\* C8 (as claimed): a call is routed to the nonlinear optimizer exactly when the
\* normalized name begins with "odt-" and its remainder is not "fixed-point",
\* the remainder being the optimizer's method; every other name goes to the
\* lookup in the methods table.
C8_AsClaimed ==
    pc # "optimize" =>
        /\ RoutedToNonlinear <=>
              (Take(normalized_method, 4) = <<"o", "d", "t", "-">> /\ Drop(normalized_method, 4) # <<"f", "i", "x", "e", "d", "-", "p", "o", "i", "n", "t">>)
        /\ nonlinear_call # << >> => nonlinear_call[1].min_method = Drop(normalized_method, 4)
        /\ ~RoutedToNonlinear => (error = "KeyError" \/ get_new_points # None)

\* ---------------------------------------------------------------------------
\* C9
\* ---------------------------------------------------------------------------
\* A name read character by character: letters in lower case, every run of
\* separators between two letters written as one hyphen, the others dropped
RECURSIVE Squeeze(_, _, _)
Squeeze(name, acc, pending) ==
    IF name = << >> THEN acc
    ELSE IF Head(name) \in {"-", " ", "(", ")"}
         THEN Squeeze(Tail(name), acc, acc # << >>)
         ELSE Squeeze(Tail(name),
                      acc \o (IF pending THEN <<"-">> ELSE << >>) \o <<LowerChar(Head(name))>>,
                      FALSE)

Canonical(name) == Squeeze(name, << >>, FALSE)

\* what optimize selects for a name
Selection(name) ==
    LET nm == Normalize(name)
    IN  IF IsNonlinear(nm) THEN <<"nonlinear", Drop(nm, 4)>>
        ELSE IF nm \in DOMAIN methods THEN <<"strategy", <<methods[nm]>> >>
        ELSE <<"unknown", << >> >>

\* what the call in progress selected
Selected ==
    IF error = "KeyError" THEN <<"unknown", << >> >>
    ELSE IF get_new_points # None THEN <<"strategy", <<get_new_points>> >>
    ELSE <<"nonlinear", Drop(normalized_method, 4)>>

\* C9: the normalized name is the name in lower case with its tokens joined by
\* single hyphens; normalizing it again changes nothing; and every name with the
\* same tokens, whatever its letter case and separators, selects what this call
\* selected.
C9_Normalization ==
    pc \in {"raised", "returned_none", "begin_save"} =>
        /\ normalized_method = Canonical(method)
        /\ Normalize(normalized_method) = normalized_method
        /\ \A other \in Names :
              Canonical(other) = Canonical(method) => Selection(other) = Selected

\* the call with "<<"o", "d", "t">>  (block diagonal)" reached the nonlinear optimizer as
\* "odt-block-diagonal" does
C9_Witness ==
    /\ method = <<"O", "D", "T", " ", " ", "(", "b", "l", "o", "c", "k", " ", "d", "i", "a", "g", "o", "n", "a", "l", ")">>
    /\ normalized_method = <<"o", "d", "t", "-", "b", "l", "o", "c", "k", "-", "d", "i", "a", "g", "o", "n", "a", "l">>
    /\ Len(nonlinear_call) = 1
    /\ nonlinear_call[1].min_method = <<"b", "l", "o", "c", "k", "-", "d", "i", "a", "g", "o", "n", "a", "l">>
    /\ Selection(<<"o", "d", "t", "-", "b", "l", "o", "c", "k", "-", "d", "i", "a", "g", "o", "n", "a", "l">>) = Selected

\* ---------------------------------------------------------------------------
\* C11
\* ---------------------------------------------------------------------------
\* C11 (as claimed): with boundary_step configured, after every iteration every
\* boundary vertex's position in the mesh equals boundary_step applied to the
\* strategy's proposed position of that vertex.
C11_AsClaimed ==
    (Committed /\ boundary_step # None) =>
        \A v \in Verts : is_boundary_point[v] => points[v] = Target(v)

\* C11 (amended): with boundary_step configured, in every iteration the step of
\* every boundary vertex is omega * (boundary_step(proposed position) - current
\* position), rescaled to the vertex's bound when it is longer than the bound;
\* the vertex's position in the mesh after the iteration equals
\* boundary_step(proposed position) when omega is 1, the step was not longer
\* than the bound and no correction pass of an implicit surface ran.  When
\* the strategy returned mesh.points itself, line 101 has put the vertex at
\* boundary_step(position) in the mesh already and its step is zero.
C11_BoundaryProjected ==
    (Stepped /\ boundary_step # None) =>
        \A v \in Verts : is_boundary_point[v] =>
            LET full == FullStep(v)
            IN  /\ IF Dot(full, full) <= max_step[v] * max_step[v]
                   THEN diff[v] = full
                   ELSE Rescaled(diff[v], full, max_step[v])
                /\ (Committed /\ passes = 0 /\ omega = 1 /\ diff[v] = full) =>
                      points[v] = Target(v)
                /\ aliased => (Zero(diff[v]) /\ (passes = 0 => points[v] = Target(v)))

\* a boundary vertex that the strategy pushed out of the domain sits, after the
\* iteration, where boundary_step put its proposal
C11_Witness ==
    /\ Committed /\ boundary_step = "snap" /\ omega = 1 /\ passes = 0
    /\ \E v \in Verts :
         /\ is_boundary_point[v]
         /\ proposed[v] # Target(v)
         /\ points[v] = Target(v) /\ points[v] # old_points[v]

\* ---------------------------------------------------------------------------
\* C12
\* ---------------------------------------------------------------------------
\* every vertex of the mesh is on the boundary and stays where the caller put it
AllFrozen ==
    /\ \A v \in Verts : is_boundary_point[v]
    /\ boundary_step = None
    /\ tol > 0 /\ max_num_steps >= 1

\* C12 (as claimed): on a mesh whose vertices are all boundary points, without
\* boundary_step, with tol > 0 and max_num_steps >= 1, the driver returns
\* (1, 0) whatever the strategy proposes and no vertex has moved.
C12_AsClaimed ==
    (AllFrozen /\ pc = "done") => (result = <<1, 0>> /\ points = InitialPoints)

\* C12 (amended): on a mesh whose vertices are all boundary points, without
\* boundary_step, with tol > 0 and max_num_steps >= 1, the step of every vertex
\* is zero whatever the strategy proposes, the first iteration is final and a
\* call that returns returns (1, 0); no vertex has moved when no correction
\* pass of an implicit surface ran.
C12_Immediate ==
    AllFrozen =>
        /\ k <= 1
        /\ Stepped => \A v \in Verts : Zero(diff[v])
        /\ pc \in {"report", "callback", "break", "done"} => is_final
        /\ pc = "done" => result = <<1, 0>>
        /\ passes = 0 => points = InitialPoints

\* the square of two cells: the strategy proposed to move a vertex, the call
\* returned after one of several allowed iterations
C12_Witness ==
    /\ AllFrozen /\ pc = "done" /\ result = <<1, 0>>
    /\ Len(cells) = 2 /\ max_num_steps >= 2 /\ omega = 2
    /\ proposed # old_points
    /\ points = InitialPoints

\* ---------------------------------------------------------------------------
\* C13
\* ---------------------------------------------------------------------------
\* line 149 has run in iteration k
Tested == k >= 1 /\ pc \in {"report", "callback", "break", "done", "propose"}

\* iteration k is final as the claim defines it, read off the clamped step
FinalNow ==
    \/ \A v \in Verts : Dot(diff[v], diff[v]) < tol * tol
    \/ k >= max_num_steps

\* the events of one kind in the trace
Events(kind) == SelectSeq(trace, LAMBDA e : e[1] = kind)

C13_Inv ==
    /\ Len(finals) = (IF Tested THEN k ELSE Max(k - 1, 0))
    /\ \A i \in 1..Len(finals) : finals[i] => (i = k /\ Tested /\ pc # "propose")
    /\ Tested => (finals[k] = is_final /\ is_final = FinalNow)
    /\ pc = "done" =>
          /\ result[1] = k /\ finals[k]
          /\ \A i \in 1..(k - 1) : ~finals[i]
          /\ Len(Events("strategy")) = k /\ Len(Events("commit")) = k
          /\ callback => Events("callback")[Len(Events("callback"))] = <<"callback", k>>

\* C13: the returned iteration count is the least k >= 1 at which every vertex's
\* clamped squared step is below tol^2 or k has reached max_num_steps: an
\* iteration that was final is the last one, the loop is left only at a final
\* iteration and continued only at one that was not, and nothing happens after
\* the return.
C13_StopsAtFirst ==
    /\ [](C13_Inv)
    /\ [][/\ pc # "done"
          /\ (pc = "break" /\ pc' = "done") => FinalNow
          /\ (pc = "break" /\ pc' = "propose") => ~FinalNow
          /\ k' # k => (k' = k + 1 /\ (k = 0 \/ ~FinalNow))]_vars

\* a run whose first iteration was not final and whose second was, by the
\* tolerance test
C13_Witness ==
    /\ pc = "done" /\ finals = <<FALSE, TRUE>> /\ result[1] = 2
    /\ \A v \in Verts : Dot(diff[v], diff[v]) < tol * tol
    /\ callback /\ implicit_surface = None

\* ---------------------------------------------------------------------------
\* C14
\* ---------------------------------------------------------------------------
Occurs(e) == \E i \in 1..Len(trace) : trace[i] = e

\* where the event e stands in the trace (its first occurrence)
Pos(e) == CHOOSE i \in 1..Len(trace) : trace[i] = e /\ \A j \in 1..(i - 1) : trace[j] # e

\* e and f have happened, e before f
Before(e, f) == Occurs(e) /\ Occurs(f) /\ Pos(e) < Pos(f)

\* the number of callback invocations that line 82 and line 170 have made when
\* the driver stands at pc
CallbacksDue ==
    IF pc \in {"begin_save", "begin_callback"} THEN 0
    ELSE IF pc \in {"begin_flip", "propose", "break", "done"} THEN k + 1
    ELSE k

C14_Inv ==
    (callback /\ pc \notin {"optimize", "raised", "returned_none"}) =>
        /\ Len(Events("callback")) = CallbacksDue
        /\ \A i \in 1..Len(Events("callback")) : Events("callback")[i] = <<"callback", i - 1>>
        /\ pc \in {"begin_save", "begin_callback", "begin_flip"} => k = 0
        /\ k = Len(Events("strategy"))
        /\ commits = Len(Events("commit"))
        /\ commits = (IF Committed \/ k = 0 THEN k ELSE k - 1)
        /\ \A j \in 1..k :
              Occurs(<<"callback", j>>) =>
                  /\ Before(<<"strategy", j>>, <<"commit", j>>)
                  /\ Before(<<"commit", j>>, <<"flip", j>>)
                  /\ Before(<<"flip", j>>, <<"callback", j>>)
        /\ \A j \in 1..k : Before(<<"callback", j - 1>>, <<"strategy", j>>)
        /\ pc = "done" => Len(Events("callback")) = result[1] + 1

\* C14: with a callback configured, the indices passed to it are 0, 1, ..., K in
\* this order, each once, K being the returned iteration count; k starts at 0
\* and is incremented once per committed step; the invocation with index
\* k >= 1 comes after the commit and the flip of iteration k and before the
\* strategy is invoked for iteration k + 1.
C14_CallbackOrder ==
    /\ [](C14_Inv)
    /\ [][k' = k \/ (k' = k + 1 /\ commits = k)]_vars

\* a run of two iterations reported 0, 1 and 2 to the callback
C14_Witness ==
    /\ pc = "done" /\ callback /\ ~step_filename_format
    /\ result[1] = 2
    /\ Events("callback") = << <<"callback", 0>>, <<"callback", 1>>, <<"callback", 2>> >>

\* ---------------------------------------------------------------------------
\* C15
\* ---------------------------------------------------------------------------
\* the events that hand the mesh to code outside the driver
IsObserver(e) == e[1] \in {"strategy", "callback", "save"}

\* before the i-th event, flip_until_delaunay has run and no commit followed it
Repaired(i) ==
    \E j \in 1..(i - 1) :
        /\ trace[j][1] = "flip"
        /\ \A m \in (j + 1)..(i - 1) : trace[m][1] \notin {"commit", "write"}

\* before the i-th event the driver has neither flipped nor committed: the mesh
\* is as the caller passed it
AsReceived(i) == \A j \in 1..(i - 1) : trace[j][1] \notin {"flip", "commit", "write"}

\* C15 (as claimed): at every strategy invocation, callback invocation and
\* snapshot, those of index 0 included, the mesh has been restored by
\* flip_until_delaunay since its last vertex change or since it was received.
C15_AsClaimed ==
    \A i \in 1..Len(trace) : IsObserver(trace[i]) => Repaired(i)

\* C15 (amended): the initial flip_until_delaunay runs once, before any vertex
\* is moved and before the first strategy invocation, but after the snapshot
\* and the callback of index 0, which see the mesh as the caller passed it;
\* every commit is followed at once by a flip_until_delaunay, and a write of
\* line 101 into mesh.points by the commit of the same iteration and its flip,
\* before any observer is called; at every strategy invocation and at every
\* callback and snapshot of index >= 1 the mesh has been restored since its
\* last vertex change.
C15_Repaired ==
    /\ \A i \in 1..Len(trace) :
          IsObserver(trace[i]) =>
              IF trace[i][1] # "strategy" /\ trace[i][2] = 0
              THEN AsReceived(i)
              ELSE Repaired(i)
    /\ \A i \in 1..Len(trace) :
          trace[i][1] \in {"commit", "write"} =>
              /\ Occurs(<<"flip", 0>>) /\ Pos(<<"flip", 0>>) < i
              /\ i < Len(trace) =>
                    trace[i + 1] = <<(IF trace[i][1] = "commit" THEN "flip" ELSE "commit"),
                                     trace[i][2]>>
    /\ Len(SelectSeq(trace, LAMBDA e : e = <<"flip", 0>>)) <= 1
    /\ delaunay = Repaired(Len(trace) + 1)
    /\ ~delaunay => pc \in {"optimize", "raised", "returned_none",
                            "begin_save", "begin_callback", "begin_flip",
                            "newton", "commit", "flip"}
    /\ (pc \in {"begin_save", "begin_callback", "begin_flip"} \/ (pc = "propose" /\ k = 0)) =>
          points = InitialPoints

\* a run with a callback and snapshots: both saw the mesh of index 0 before the
\* first flip, and the run went on to commit two steps
C15_Witness ==
    /\ pc = "done" /\ commits = 2 /\ callback /\ step_filename_format
    /\ SubSeq(trace, 1, 4) = << <<"save", 0>>, <<"callback", 0>>, <<"flip", 0>>, <<"strategy", 1>> >>
    /\ delaunay

\* ---------------------------------------------------------------------------
\* C16
\* ---------------------------------------------------------------------------
\* the inradii of the cells that vertex v belongs to
IncidentRadii(v) ==
    { cell_inradius[c] : c \in { c \in 1..Len(cells) : \E i \in 1..3 : cells[c][i] = v } }

\* the bound of vertex v in iteration k is half the least inradius of its cells,
\* and infinite for a vertex without a cell
BoundIsHalfInradius(v) ==
    /\ pc \in {"newton", "commit", "flip"} =>
          IF IncidentRadii(v) = {} THEN old_inradius[v] = Inf
          ELSE /\ old_inradius[v] \in IncidentRadii(v)
               /\ \A r \in IncidentRadii(v) : old_inradius[v] <= r
    /\ IF old_inradius[v] = Inf THEN max_step[v] = Inf
       ELSE 2 * max_step[v] = old_inradius[v]

\* |d| <= bound, every length being below the infinite bound
NotLonger(d, bound) == bound = Inf \/ Dot(d, d) <= bound * bound

\* C16: for each vertex, whatever the other vertices do, the clamped step is
\* omega * (proposal - current) unchanged when its length is at most the
\* vertex's bound (half the least inradius of its cells, infinite for a vertex
\* touching no cell), and otherwise the same vector rescaled to the length of
\* the bound with its direction kept; a vertex touching no cell is never
\* clamped.
C16_PerVertexClamp ==
    Stepped =>
        \A v \in Verts :
            LET full == FullStep(v)
            IN  /\ BoundIsHalfInradius(v)
                /\ IF NotLonger(full, max_step[v])
                   THEN diff[v] = full
                   ELSE Rescaled(diff[v], full, max_step[v])
                /\ old_inradius[v] = Inf => diff[v] = full

\* one iteration in which a vertex without a cell took a long step unchanged,
\* a second vertex was cut to its bound and a third kept its shorter step
C16_Witness ==
    /\ Stepped /\ pc = "commit"
    /\ \E v \in Verts :
         /\ IncidentRadii(v) = {}
         /\ Dot(diff[v], diff[v]) >= 16
    /\ \E v \in Verts :
         /\ diff[v] # FullStep(v)
         /\ Dot(diff[v], diff[v]) = max_step[v] * max_step[v]
    /\ \E v \in Verts :
         /\ IncidentRadii(v) # {}
         /\ diff[v] = FullStep(v) /\ ~Zero(diff[v])

\* ---------------------------------------------------------------------------
\* C17
\* ---------------------------------------------------------------------------
\* the number of times line 74 and line 163 have been passed when the driver
\* stands at pc
SavesDue ==
    IF pc \in {"optimize", "raised", "returned_none", "begin_save"} THEN 0
    ELSE IF pc \in {"begin_callback", "begin_flip", "propose", "callback", "break", "done"}
         THEN k + 1
         ELSE k

\* C17 (as claimed): with step_filename_format a finished run has emitted one
\* snapshot for each index 0..K; without it, one snapshot, after the final
\* iteration.
C17_AsClaimed ==
    pc = "done" =>
        IF step_filename_format
        THEN /\ Len(Events("save")) = result[1] + 1
             /\ \A i \in 1..Len(Events("save")) : Events("save")[i] = <<"save", i - 1>>
        ELSE Events("save") = << <<"save", result[1]>> >>

\* C17 (amended): with step_filename_format the snapshots emitted are those of
\* the indices 0, 1, ..., k in this order, each once, the one of index k before
\* the callback of index k, and a finished run has emitted those of 0..K;
\* without step_filename_format no snapshot is emitted at all, not even after
\* the final iteration.
C17_Snapshots ==
    IF step_filename_format
    THEN /\ Len(Events("save")) = SavesDue
         /\ \A i \in 1..Len(Events("save")) : Events("save")[i] = <<"save", i - 1>>
         /\ \A j \in 0..k : Occurs(<<"callback", j>>) => Before(<<"save", j>>, <<"callback", j>>)
         /\ \A j \in 1..k : Occurs(<<"save", j>>) => Before(<<"flip", j>>, <<"save", j>>)
         /\ pc = "done" => Len(Events("save")) = result[1] + 1
    ELSE Events("save") = << >>

\* a run of two iterations with snapshots 0, 1 and 2, the middle one of an
\* iteration that was not final
C17_Witness ==
    /\ pc = "done" /\ step_filename_format /\ callback
    /\ finals = <<FALSE, TRUE>>
    /\ Events("save") = << <<"save", 0>>, <<"save", 1>>, <<"save", 2>> >>

\* ---------------------------------------------------------------------------
\* C18
\* ---------------------------------------------------------------------------
\* the point p is on the implicit surface up to implicit_surface_tol
OnSurface(p) ==
    /\ SurfaceF(implicit_surface, p) <= implicit_surface_tol
    /\ -SurfaceF(implicit_surface, p) <= implicit_surface_tol

\* C18: with an implicit surface, once an iteration has been committed every
\* vertex position p of the mesh satisfies |f(p)| <= implicit_surface_tol; fval
\* holds the field values of new_points after every correction pass, and the
\* correction loop is left only when no point exceeds the tolerance.
C18_OnSurface ==
    implicit_surface # None =>
        /\ Committed => \A v \in Verts : OnSurface(points[v])
        /\ pc \in {"newton", "commit"} =>
              \A v \in Verts : fval[v] = SurfaceF(implicit_surface, new_points[v])
        /\ pc = "commit" => \A v \in Verts : OnSurface(new_points[v])

\* a second iteration was committed after a correction pass brought a vertex
\* back that the step had taken off the surface
C18_Witness ==
    /\ implicit_surface = "plane" /\ implicit_surface_tol = 1
    /\ Committed /\ commits = 2 /\ passes = 1
    /\ \E v \in Verts :
         /\ ~OnSurface(VAdd(Current(v), diff[v]))
         /\ OnSurface(points[v])

\* ---------------------------------------------------------------------------
\* C19
\* ---------------------------------------------------------------------------
\* current position + clamped step of vertex v in iteration k (line 127)
Pre(v) == VAdd(Current(v), diff[v])

\* the point p moved along the gradient by field value / squared gradient norm
Projected(p) ==
    LET g == SurfaceGrad(implicit_surface, p)
    IN  [i \in DOMAIN p |-> p[i] - g[i] * (SurfaceF(implicit_surface, p) \div Dot(g, g))]

\* the correction loop of iteration k has made exactly one pass
OnePass == implicit_surface # None /\ Stepped /\ pc # "propose" /\ passes = 1

\* C19 (as claimed): a correction pass leaves a point whose |f| is within
\* implicit_surface_tol at current position + clamped step, even when other
\* points are outside the tolerance in that pass.
C19_AsClaimed ==
    OnePass => \A v \in Verts : OnSurface(Pre(v)) => new_points[v] = Pre(v)

\* C19 (amended): a correction pass runs when at least one point is outside
\* implicit_surface_tol, and it moves every point, those within the tolerance
\* included, by its own field value / squared gradient norm along its
\* gradient; a point within the tolerance stays at current position + clamped
\* step only when its field value is 0 or when no pass runs in the iteration.
C19_WholeArray ==
    /\ OnePass =>
          /\ \E v \in Verts : ~OnSurface(Pre(v))
          /\ \A v \in Verts : new_points[v] = Projected(Pre(v))
          /\ \A v \in Verts : SurfaceF(implicit_surface, Pre(v)) = 0 => new_points[v] = Pre(v)
    /\ (Stepped /\ pc # "propose" /\ passes = 0) =>
          /\ \A v \in Verts : new_points[v] = Pre(v)
          /\ (implicit_surface # None /\ pc # "newton") => \A v \in Verts : OnSurface(Pre(v))

\* a pass moved a point that was within the tolerance, and the iteration was
\* committed
C19_Witness ==
    /\ OnePass /\ Committed /\ implicit_surface_tol = 1
    /\ \E v \in Verts :
         /\ OnSurface(Pre(v))
         /\ points[v] # Pre(v) /\ points[v] = Projected(Pre(v))

====
